---- MODULE Spec2Model ----
(***************************************************************************)
(* Audio pipeline of the spectrum visualizer (renderer.js): the source    *)
(* state machine (none / realtime / file), the Web Audio graph it wires,  *)
(* the file transport with its playback clock, the band selection and the *)
(* output gain.                                                           *)
(*                                                                         *)
(* Handlers are translated as transformers of a record of the script's    *)
(* globals, so that a handler that calls other functions is one action.   *)
(* Every await splits its handler into one action per continuation.       *)
(*                                                                         *)
(* Units: audio-clock time in ticks, gain and volume in percent           *)
(* (gain.value * 100), frequencies in whole Hz, pixels as integers.       *)
(***************************************************************************)
EXTENDS Integers, Sequences, FiniteSets, TLC

\* ----------------------------------------------------------------- bounds
\* Source nodes (MediaStreamSource / BufferSource) created in one behaviour.
MaxNodes == 2
\* Last value of the audio clock (audioCtx.currentTime), in ticks.
MaxClock == 2
\* Continuations (getUserMedia, file read, decode, seek timer) that may be
\* outstanding at the same time.
MaxPending == 1
\* startAudio invocations waiting for getUserMedia at once, where they overlap.
MaxStarts == 2
\* Bins of the analyser (visualAnalyser.frequencyBinCount = FFT_SIZE / 2).
NumBins == 2

\* ------------------------------------------------------------ input sets
\* Durations, in ticks, of the files the user may load.
Durations == {2}
\* Progress percentages a click on the timeline gauge may produce.
SeekPercents == {0, 50}
\* Values the volume gauge may produce (percent).
VolumePercents == {50, 100}
\* Mouse x positions relative to the canvas (the last one is right of the plot).
MouseXs == {0, 5, 120}
\* The page may or may not hold an element with id timelineSlider; when it
\* does, no code of the script ever writes its value.
NoSlider == -1
TimelineSliders == {NoSlider, 0}
\* Levels in dB that getFloatFrequencyData may deliver for a bin; silence is
\* -Infinity, here a level below every other.
NegInfinity == -1000
SampleLevels == {NegInfinity, -130, -60, -20}

\* ------------------------------------------------------------- constants
PaddingRight == 10
MinDragPixels == 5
MinCutoffHz == 10
MinBandwidthHz == 10
HighpassDefaultHz == 20
LowpassDefaultHz == 20000
PeakFloor == -120

\* Width of the spectrum canvas (rect.width) and of its plot area, in pixels.
CanvasWidth == 122
PlotWidth == CanvasWidth - PaddingRight

Null == 0
NoX == -1
NoBand == [lo |-> -1, hi |-> -1]
NoPixels == [x1 |-> -1, x2 |-> -1]
NoPeaks == <<>>
NoHz == -1
NoThrow == [in |-> "none", call |-> "none"]

VARIABLES
  audioCtx,              \* BOOLEAN: the AudioContext exists
  clock,                 \* audioCtx.currentTime
  mediaStream,           \* id of the source node wrapping the latest stream, or Null
  currentSourceNode, realtimeSourceNode, fileSourceNode,  \* node ids or Null
  inputMode,             \* "none" | "realtime" | "file"
  isPlaying, isRepeating, isRealtimeActive,
  fileBuffer,            \* duration of the decoded buffer, or Null
  fileDuration,
  gainOut, highpass, lowpass, visualAnalyser,   \* BOOLEAN: the node exists
  gainValue, highpassFreq, lowpassFreq,
  outputEnabled, volumeLevel,
  srcs,                  \* the source nodes ever created, by id
  conns,                 \* connections among highpass/lowpass/gain/destination
  dragging, dragStartX, dragEndX, selectedBandHz, selectedBandPixels,
  currentTimelineProgress, currentTimeText,
  timeUpdateInterval,    \* BOOLEAN: the handle of the latest setInterval
  leakedInterval,        \* BOOLEAN: an interval whose handle was overwritten still runs
  playStartTime, pausedTime,
  timelineSlider,
  status,
  peakBins,              \* NoPeaks, or the held peak of every bin in dB
  pendingStart, pendingRead, pendingDecode, pendingSeek,
  mapWidth,              \* the width argument of a frequency-map call
  mapX,                  \* the x argument of canvasXToHz, or NoX
  mapHz,                 \* a frequency (argument or return value), or NoHz
  mapOutX,               \* the return value of hzToCanvasX, or NoX
  thrown,                \* the disconnect/stop call that threw and the function
                         \* whose teardown made it, or NoThrow
  escaped,               \* BOOLEAN: the exception left that function
  lastFrameTime,         \* 0, or 1 for the timestamp of the latest frame
  pendingFrames,         \* the requestAnimationFrame(drawLoop) callbacks not yet run
  created                \* per persistent object, how many instances were made

vars == <<audioCtx, clock, mediaStream, currentSourceNode, realtimeSourceNode,
          fileSourceNode, inputMode, isPlaying, isRepeating, isRealtimeActive,
          fileBuffer, fileDuration, gainOut, highpass, lowpass, visualAnalyser,
          gainValue, highpassFreq, lowpassFreq, outputEnabled, volumeLevel,
          srcs, conns, dragging, dragStartX, dragEndX, selectedBandHz,
          selectedBandPixels, currentTimelineProgress, currentTimeText,
          timeUpdateInterval, leakedInterval, playStartTime, pausedTime,
          timelineSlider, status, peakBins, pendingStart, pendingRead,
          pendingDecode, pendingSeek, mapWidth, mapX, mapHz, mapOutX,
          thrown, escaped, lastFrameTime, pendingFrames, created>>

\* The globals as one record: the argument and result of every function below.
G == [audioCtx |-> audioCtx, clock |-> clock, mediaStream |-> mediaStream,
      currentSourceNode |-> currentSourceNode,
      realtimeSourceNode |-> realtimeSourceNode,
      fileSourceNode |-> fileSourceNode, inputMode |-> inputMode,
      isPlaying |-> isPlaying, isRepeating |-> isRepeating,
      isRealtimeActive |-> isRealtimeActive, fileBuffer |-> fileBuffer,
      fileDuration |-> fileDuration, gainOut |-> gainOut,
      highpass |-> highpass, lowpass |-> lowpass,
      visualAnalyser |-> visualAnalyser, gainValue |-> gainValue,
      highpassFreq |-> highpassFreq, lowpassFreq |-> lowpassFreq,
      outputEnabled |-> outputEnabled, volumeLevel |-> volumeLevel,
      srcs |-> srcs, conns |-> conns, dragging |-> dragging,
      dragStartX |-> dragStartX, dragEndX |-> dragEndX,
      selectedBandHz |-> selectedBandHz,
      selectedBandPixels |-> selectedBandPixels,
      currentTimelineProgress |-> currentTimelineProgress,
      currentTimeText |-> currentTimeText,
      timeUpdateInterval |-> timeUpdateInterval,
      leakedInterval |-> leakedInterval, playStartTime |-> playStartTime,
      pausedTime |-> pausedTime, timelineSlider |-> timelineSlider,
      status |-> status, peakBins |-> peakBins, pendingStart |-> pendingStart,
      pendingRead |-> pendingRead, pendingDecode |-> pendingDecode,
      pendingSeek |-> pendingSeek]

\* The globals take the values of s.
Assign(s) ==
  /\ audioCtx' = s.audioCtx /\ clock' = s.clock
  /\ mediaStream' = s.mediaStream
  /\ currentSourceNode' = s.currentSourceNode
  /\ realtimeSourceNode' = s.realtimeSourceNode
  /\ fileSourceNode' = s.fileSourceNode /\ inputMode' = s.inputMode
  /\ isPlaying' = s.isPlaying /\ isRepeating' = s.isRepeating
  /\ isRealtimeActive' = s.isRealtimeActive /\ fileBuffer' = s.fileBuffer
  /\ fileDuration' = s.fileDuration /\ gainOut' = s.gainOut
  /\ highpass' = s.highpass /\ lowpass' = s.lowpass
  /\ visualAnalyser' = s.visualAnalyser /\ gainValue' = s.gainValue
  /\ highpassFreq' = s.highpassFreq /\ lowpassFreq' = s.lowpassFreq
  /\ outputEnabled' = s.outputEnabled /\ volumeLevel' = s.volumeLevel
  /\ srcs' = s.srcs /\ conns' = s.conns /\ dragging' = s.dragging
  /\ dragStartX' = s.dragStartX /\ dragEndX' = s.dragEndX
  /\ selectedBandHz' = s.selectedBandHz
  /\ selectedBandPixels' = s.selectedBandPixels
  /\ currentTimelineProgress' = s.currentTimelineProgress
  /\ currentTimeText' = s.currentTimeText
  /\ timeUpdateInterval' = s.timeUpdateInterval
  /\ leakedInterval' = s.leakedInterval
  /\ playStartTime' = s.playStartTime /\ pausedTime' = s.pausedTime
  /\ timelineSlider' = s.timelineSlider /\ status' = s.status
  /\ peakBins' = s.peakBins
  /\ pendingStart' = s.pendingStart /\ pendingRead' = s.pendingRead
  /\ pendingDecode' = s.pendingDecode /\ pendingSeek' = s.pendingSeek

\* A handler in which no call throws leaves the globals as s.
Commit(s) ==
  /\ Assign(s)
  /\ UNCHANGED <<mapWidth, mapX, mapHz, mapOutX, thrown, escaped,
                 lastFrameTime, pendingFrames, created>>

\* A start of the render loop that requests a frame without looking at
\* lastFrameTime.
startDrawLoopUnguarded(last, pending) ==
  [lastFrameTime |-> 1, pendingFrames |-> pending + 1]

\* if (!lastFrameTime) { lastFrameTime = performance.now();
\*                       requestAnimationFrame(drawLoop); }
startDrawLoop(last, pending) ==
  IF last = 0 THEN [lastFrameTime |-> 1, pendingFrames |-> pending + 1]
  ELSE [lastFrameTime |-> last, pendingFrames |-> pending]

\* The audio context and the nodes initializeAudioNodes makes.
PersistentObjects == {"audioCtx", "gainOut", "highpass", "lowpass", "visualAnalyser"}

\* One more instance of every object in made.
Made(count, made) ==
  [o \in PersistentObjects |-> IF o \in made THEN count[o] + 1 ELSE count[o]]

\* if (!audioCtx) { audioCtx = new AudioContext(...) }: the object it makes.
contextToCreate(s) == IF ~s.audioCtx THEN {"audioCtx"} ELSE {}

\* A node initialisation that makes its four nodes every time.
nodesToCreateAlways(s) == PersistentObjects \ {"audioCtx"}

\* The nodes initializeAudioNodes makes in s: each one only if its variable is
\* still null.
nodesToCreate(s) ==
  {o \in PersistentObjects \ {"audioCtx"} : ~s[o]}

\* A handler that makes the objects in made and ends by starting the render
\* loop leaves the globals as s.
CommitStartingLoop(s, made) ==
  /\ Assign(s)
  /\ created' = Made(created, made)
  /\ lastFrameTime' = startDrawLoop(lastFrameTime, pendingFrames).lastFrameTime
  /\ pendingFrames' = startDrawLoop(lastFrameTime, pendingFrames).pendingFrames
  /\ UNCHANGED <<mapWidth, mapX, mapHz, mapOutX, thrown, escaped>>

\* The continuations outstanding in s.
Pending(s) == s.pendingStart + s.pendingRead + s.pendingDecode + s.pendingSeek

Max(a, b) == IF a >= b THEN a ELSE b
Min(a, b) == IF a <= b THEN a ELSE b


\* ------------------------------------------------- Web Audio primitives
\* A source node. kind "mic": live = the stream's tracks are running.
\* kind "file": live = started and neither stopped nor ended; off, t0, dur and
\* loop are its schedule (buffer offset, start time, buffer duration, loop flag);
\* onended = the script attached its ended handler; notified = the ended event
\* has been delivered. out = the nodes its output is connected to.
NewNode(k) ==
  [kind |-> k, live |-> (k = "mic"), out |-> {}, off |-> 0, t0 |-> 0, dur |-> 0,
   loop |-> FALSE, onended |-> FALSE, notified |-> FALSE]

\* createMediaStreamSource / createBufferSource: the id of the node made next.
NextId(s) == Len(s.srcs) + 1

CreateSource(s, k) == [s EXCEPT !.srcs = Append(@, NewNode(k))]

\* AudioNode.connect(destination) of a source node.
ConnectSource(s, n, to) == [s EXCEPT !.srcs[n].out = @ \cup {to}]

\* AudioNode.disconnect() of a source node: drops all its outgoing connections.
DisconnectSource(s, n) == [s EXCEPT !.srcs[n].out = {}]

\* connect / disconnect() of a persistent node (highpass, lowpass, gain, analyser).
ConnectNode(s, from, to) == [s EXCEPT !.conns = @ \cup {<<from, to>>}]

DisconnectNode(s, from) == [s EXCEPT !.conns = {c \in @ : c[1] # from}]

\* AudioBufferSourceNode.start(0, offset); an offset past the end is clamped.
StartSource(s, n, offset) ==
  [s EXCEPT !.srcs[n].live = TRUE,
            !.srcs[n].off = Min(offset, s.srcs[n].dur),
            !.srcs[n].t0 = s.clock]

\* AudioBufferSourceNode.stop(): playback ends; the ended event follows later.
\* (Every buffer source the script holds has been started, so stop never throws.)
\* Nothing reads the schedule of a stopped node again: it is cleared.
StopSource(s, n) ==
  [s EXCEPT !.srcs[n].live = FALSE, !.srcs[n].off = 0, !.srcs[n].t0 = 0,
            !.srcs[n].dur = 0, !.srcs[n].loop = FALSE]

\* The ended event of node n has been dispatched: the node is finished.
MarkEnded(s, n) ==
  [StopSource(s, n) EXCEPT !.srcs[n].notified = TRUE, !.srcs[n].onended = FALSE]

\* mediaStream.getTracks().forEach(t => t.stop())
StopTracks(s, n) == [s EXCEPT !.srcs[n].live = FALSE]

\* ---------------------------------------------------------- FrequencyMap
FrequencyValues ==
  <<0, 50, 100, 200, 300, 400, 500, 600, 700, 800, 900, 1000, 2000, 5000, 10000>>

\* 10 ^ logFreqs[i]: the 0 Hz breakpoint has logFreqs = 0, that is 1 Hz.
PowLogFreq(i) == IF FrequencyValues[i] = 0 THEN 1 ELSE FrequencyValues[i]

RECURSIVE ISqrtIn(_, _, _)
ISqrtIn(v, lo, hi) ==
  IF lo >= hi THEN lo
  ELSE LET mid == (lo + hi + 1) \div 2
       IN IF mid * mid <= v THEN ISqrtIn(v, mid, hi) ELSE ISqrtIn(v, lo, mid - 1)

ISqrt(v) == ISqrtIn(v, 0, Min(v, 46340))

\* 10 ^ (log f1 + (k / n) * (log f2 - log f1)) = f1^(1 - k/n) * f2^(k/n), for n a
\* power of two, by repeated geometric means, rounded down to whole Hz.
RECURSIVE GeoInterp(_, _, _, _)
GeoInterp(f1, f2, k, n) ==
  IF k = 0 THEN f1
  ELSE IF k = n THEN f2
  ELSE LET m == ISqrt(f1 * f2)
           h == n \div 2
       IN IF k <= h THEN GeoInterp(f1, m, k, h) ELSE GeoInterp(m, f2, k - h, h)

\* canvasXToHz(x, width), for a width that is 14 times a power of two.
canvasXToHz(x, width) ==
  LET n == Len(FrequencyValues)
      seg == width \div (n - 1)
      \* the first i (from 0) with x1 <= x <= x2
      i == IF x % seg = 0 THEN (x \div seg) - 1 ELSE x \div seg
  IN IF x <= 0 THEN FrequencyValues[1]
     ELSE IF x >= width THEN FrequencyValues[n]
     ELSE GeoInterp(PowLogFreq(i + 1), PowLogFreq(i + 2), x - i * seg, seg)

\* The same two conversions on fixed-point numbers, for the properties that
\* need fractions of a Hz and of a pixel: frequencies in units of 1/HzScale Hz,
\* hzToCanvasX's result in units of 1/XScale pixel. Inside a segment the code
\* interpolates the logarithm; here f1 * (f2/f1)^ratio is computed on the
\* ratio f2/f1 in units of 1/RatioScale (finer where f2/f1 is small enough
\* for the products to fit an integer).
HzScale == 512
XScale == 16
RatioScale(f1) == IF f1 = 1 THEN 512 ELSE 16384
RatioTop(f1, f2) == (f2 * RatioScale(f1)) \div f1

\* A conversion that interpolates the frequency itself instead of its logarithm.
canvasXToHzLinear(x, width) ==
  LET n == Len(FrequencyValues)
      seg == width \div (n - 1)
      i == IF x % seg = 0 THEN (x \div seg) - 1 ELSE x \div seg
  IN IF x <= 0 THEN FrequencyValues[1] * HzScale
     ELSE IF x >= width THEN FrequencyValues[n] * HzScale
     ELSE LET f1 == FrequencyValues[i + 1]
              f2 == FrequencyValues[i + 2]
          IN f1 * HzScale + ((x - i * seg) * (f2 - f1) * HzScale) \div seg

\* canvasXToHz(x, width) in units of 1/HzScale Hz, for a width that is 14 times
\* a power of two. (logHz === 0 needs x = 0, which has returned before.)
canvasXToHzScaled(x, width) ==
  LET n == Len(FrequencyValues)
      seg == width \div (n - 1)
      i == IF x % seg = 0 THEN (x \div seg) - 1 ELSE x \div seg
  IN IF x <= 0 THEN FrequencyValues[1] * HzScale
     ELSE IF x >= width THEN FrequencyValues[n] * HzScale
     ELSE LET f1 == PowLogFreq(i + 1)
              f2 == PowLogFreq(i + 2)
              r == GeoInterp(RatioScale(f1), RatioTop(f1, f2), x - i * seg, seg)
          IN (f1 * r) \div (RatioScale(f1) \div HzScale)

\* (log r - log lo) / (log hi - log lo) in units of 1/span, span a power of
\* two, by bisection with geometric means.
RECURSIVE LogInterp(_, _, _, _)
LogInterp(r, lo, hi, span) ==
  IF span = 1 THEN 0
  ELSE LET m == ISqrt(lo * hi)
           h == span \div 2
       IN IF r >= m THEN h + LogInterp(r, m, hi, h) ELSE LogInterp(r, lo, m, h)

\* The segments (from 0) whose test logHz >= f1 && logHz <= f2 succeeds.
SegmentsOf(hz) ==
  {i \in 0..(Len(FrequencyValues) - 2) :
     /\ hz >= PowLogFreq(i + 1) * HzScale /\ hz <= PowLogFreq(i + 2) * HzScale}

\* x1 + ratio * (x2 - x1) for hz in segment i, in units of 1/XScale pixel.
SegmentX(hz, i, seg) ==
  LET f1 == PowLogFreq(i + 1)
      f2 == PowLogFreq(i + 2)
      r == (hz * (RatioScale(f1) \div HzScale)) \div f1
      span == seg * XScale
  IN i * span + (IF r >= RatioTop(f1, f2) THEN span
                 ELSE LogInterp(r, RatioScale(f1), RatioTop(f1, f2), span))

\* A conversion without the check against the last breakpoint.
hzToCanvasXNoUpperClamp(hz, width) ==
  LET seg == width \div (Len(FrequencyValues) - 1)
      S == SegmentsOf(hz)
  IN IF hz <= FrequencyValues[1] * HzScale THEN 0
     ELSE IF S = {} THEN 0
     ELSE SegmentX(hz, CHOOSE j \in S : \A k \in S : j <= k, seg)

\* hzToCanvasX(hz, width): hz in units of 1/HzScale Hz, the result in units of
\* 1/XScale pixel. Below 1 Hz the logarithm is negative, no segment matches
\* and the loop falls through to return 0.
hzToCanvasX(hz, width) ==
  LET n == Len(FrequencyValues)
      seg == width \div (n - 1)
      S == SegmentsOf(hz)
  IN IF hz <= FrequencyValues[1] * HzScale THEN 0
     ELSE IF hz >= FrequencyValues[n] * HzScale THEN width * XScale
     ELSE IF S = {} THEN 0
     ELSE SegmentX(hz, CHOOSE j \in S : \A k \in S : j <= k, seg)


\* ------------------------------------------------------------ AudioGraph
\* outputEnabled ? volumeLevel : 0.0
EffectiveGain(s) == IF s.outputEnabled THEN s.volumeLevel ELSE 0

initializeAudioNodes(s) ==
  LET a == IF ~s.gainOut
           THEN [s EXCEPT !.gainOut = TRUE, !.gainValue = EffectiveGain(s)] ELSE s
      b == IF ~a.highpass
           THEN [a EXCEPT !.highpass = TRUE, !.highpassFreq = HighpassDefaultHz] ELSE a
      c == IF ~b.lowpass
           THEN [b EXCEPT !.lowpass = TRUE, !.lowpassFreq = LowpassDefaultHz] ELSE b
  IN [c EXCEPT !.visualAnalyser = TRUE]

\* A disconnect block that leaves the current source's connections in place.
DisconnectPipelineKeepSource(s) ==
  LET a == IF s.highpass THEN DisconnectNode(s, "highpass") ELSE s
      b == IF a.lowpass THEN DisconnectNode(a, "lowpass") ELSE a
  IN DisconnectNode(b, "gainOut")

\* The "disconnect everything" block at the head of connectAudioPipeline.
DisconnectPipeline(s) ==
  LET a == IF s.highpass THEN DisconnectNode(s, "highpass") ELSE s
      b == IF a.lowpass THEN DisconnectNode(a, "lowpass") ELSE a
      c == DisconnectNode(b, "gainOut")
  IN DisconnectSource(c, c.currentSourceNode)

\* The cutoffs a band selection sets.
HighpassCutoff(band) == Max(MinCutoffHz, band.lo)

\* A lowpass cutoff taken from the band without the floor above the highpass.
LowpassCutoffUnclamped(hp, band) == band.hi

LowpassCutoff(hp, band) == Max(hp + MinBandwidthHz, band.hi)

\* The audible path: through the filters when a band is selected, else direct.
ConnectOutputPath(s) ==
  LET n == s.currentSourceNode
      hp == HighpassCutoff(s.selectedBandHz)
  IN IF s.selectedBandHz # NoBand
     THEN ConnectNode(ConnectNode(ConnectSource(
            [s EXCEPT !.highpassFreq = hp,
                      !.lowpassFreq = LowpassCutoff(hp, s.selectedBandHz)],
            n, "highpass"), "highpass", "lowpass"), "lowpass", "gainOut")
     ELSE ConnectSource(s, n, "gainOut")

\* A pipeline whose analysis tap is wired only while output is enabled.
connectAudioPipelineTapWhenEnabled(s) ==
  IF s.currentSourceNode = Null \/ ~s.gainOut \/ ~s.visualAnalyser THEN s
  ELSE LET a == ConnectOutputPath(DisconnectPipeline(s))
           b == ConnectNode([a EXCEPT !.gainValue = EffectiveGain(a)],
                            "gainOut", "destination")
       IN IF b.outputEnabled
          THEN ConnectSource(b, b.currentSourceNode, "visualAnalyser") ELSE b

connectAudioPipeline(s) ==
  IF s.currentSourceNode = Null \/ ~s.gainOut \/ ~s.visualAnalyser THEN s
  ELSE LET a == ConnectOutputPath(DisconnectPipeline(s))
           b == ConnectNode([a EXCEPT !.gainValue = EffectiveGain(a)],
                            "gainOut", "destination")
       IN ConnectSource(b, b.currentSourceNode, "visualAnalyser")

updateCurrentVolume(s) ==
  IF s.gainOut /\ s.currentSourceNode # Null
  THEN [s EXCEPT !.gainValue = EffectiveGain(s)] ELSE s

\* --------------------------------------------------------- SourceManager
stopCurrentInput(s) ==
  LET a == IF s.inputMode = "realtime" /\ s.realtimeSourceNode # Null
           THEN [(IF s.mediaStream # Null THEN StopTracks(s, s.mediaStream) ELSE s)
                   EXCEPT !.realtimeSourceNode = Null]
           ELSE IF s.inputMode = "file" /\ s.fileSourceNode # Null
           THEN [StopSource(DisconnectSource(s, s.fileSourceNode), s.fileSourceNode)
                   EXCEPT !.fileSourceNode = Null, !.isPlaying = FALSE]
           ELSE s
  IN [a EXCEPT !.currentSourceNode = Null, !.inputMode = "none"]

stopAudio(s) ==
  [(IF s.inputMode = "realtime" THEN stopCurrentInput(s) ELSE s)
     EXCEPT !.isRealtimeActive = FALSE, !.status = "Info"]

stopTimeUpdate(s) == [s EXCEPT !.timeUpdateInterval = FALSE]

switchToRealtimeMode(s) ==
  LET a == IF s.isPlaying /\ s.inputMode = "file"
           THEN stopTimeUpdate(
                  [(IF s.fileSourceNode # Null
                    THEN StopSource(DisconnectSource(s, s.fileSourceNode),
                                    s.fileSourceNode)
                    ELSE s)
                     EXCEPT !.fileSourceNode = Null, !.isPlaying = FALSE])
           ELSE s
      b == IF a.inputMode # "realtime"
           THEN LET c == stopCurrentInput(a)
                IN [c EXCEPT !.inputMode = "realtime",
                             !.currentSourceNode = c.realtimeSourceNode]
           ELSE a
  IN IF b.gainOut THEN [b EXCEPT !.gainValue = EffectiveGain(b)] ELSE b

\* A switch that takes the mode to file whether or not a buffer is there.
switchToFileModeWithoutBuffer(s) ==
  LET a == IF s.isRealtimeActive /\ s.inputMode = "realtime" THEN stopAudio(s) ELSE s
      b == IF a.inputMode # "file"
           THEN LET c == stopCurrentInput(a)
                IN [c EXCEPT !.inputMode = "file",
                             !.currentSourceNode = c.fileSourceNode]
           ELSE a
  IN IF b.gainOut THEN [b EXCEPT !.gainValue = EffectiveGain(b)] ELSE b

switchToFileMode(s) ==
  LET a == IF s.isRealtimeActive /\ s.inputMode = "realtime" THEN stopAudio(s) ELSE s
  IN IF a.fileBuffer = Null THEN a
     ELSE LET b == IF a.inputMode # "file"
                   THEN LET c == stopCurrentInput(a)
                        IN [c EXCEPT !.inputMode = "file",
                                     !.currentSourceNode = c.fileSourceNode]
                   ELSE a
          IN IF b.gainOut THEN [b EXCEPT !.gainValue = EffectiveGain(b)] ELSE b

\* ------------------------------------------- PlaybackClock and transport
drawTimelineGauge(s, progressPercent) ==
  [s EXCEPT !.currentTimelineProgress = progressPercent]

\* timelineSlider is declared nowhere in the script: reading it throws unless
\* the page defines an element of that id.
SliderThrows(s) == s.timelineSlider = NoSlider

\* startTimeUpdate up to its throw (when SliderThrows) or to its end.
startTimeUpdate(s) ==
  LET a == [s EXCEPT !.playStartTime = s.clock]
  IN IF SliderThrows(s) THEN a
     ELSE [a EXCEPT !.pausedTime = (s.timelineSlider * s.fileDuration) \div 100,
                    !.leakedInterval = s.leakedInterval \/ s.timeUpdateInterval,
                    !.timeUpdateInterval = TRUE]

\* The offset playFile starts the new node at.
PlayStartOffset(s) == (s.currentTimelineProgress * s.fileDuration) \div 100

playFile(s) ==
  IF s.fileBuffer = Null \/ ~s.audioCtx THEN s
  ELSE LET a == IF s.fileSourceNode # Null
                THEN [StopSource(DisconnectSource(s, s.fileSourceNode),
                                 s.fileSourceNode)
                        EXCEPT !.fileSourceNode = Null]
                ELSE s
           n == NextId(a)
           b == [CreateSource(a, "file")
                   EXCEPT !.srcs[n].dur = a.fileBuffer,
                          !.srcs[n].loop = a.isRepeating,
                          !.fileSourceNode = n, !.currentSourceNode = n]
           c == connectAudioPipeline(b)
           d == [StartSource(c, n, PlayStartOffset(c)) EXCEPT !.isPlaying = TRUE]
           e == startTimeUpdate(d)
       IN IF SliderThrows(d) THEN [e EXCEPT !.status = "PlaybackError"]
          ELSE [e EXCEPT !.srcs[n].onended = TRUE, !.status = "Info"]

\* A pause button that resumes when nothing plays.
pauseFileToggle(s) ==
  IF s.fileSourceNode # Null /\ s.isPlaying
  THEN stopTimeUpdate(
         [StopSource(DisconnectSource(s, s.fileSourceNode), s.fileSourceNode)
            EXCEPT !.fileSourceNode = Null, !.isPlaying = FALSE, !.status = "Info"])
  ELSE [s EXCEPT !.isPlaying = TRUE]

pauseFile(s) ==
  IF s.fileSourceNode # Null /\ s.isPlaying
  THEN stopTimeUpdate(
         [StopSource(DisconnectSource(s, s.fileSourceNode), s.fileSourceNode)
            EXCEPT !.fileSourceNode = Null, !.isPlaying = FALSE, !.status = "Info"])
  ELSE s

\* A stop that tears the node down and leaves the position where it is.
stopFileKeepPosition(s) ==
  LET a == IF s.fileSourceNode # Null
           THEN [StopSource(DisconnectSource(s, s.fileSourceNode), s.fileSourceNode)
                   EXCEPT !.fileSourceNode = Null]
           ELSE s
  IN stopTimeUpdate([a EXCEPT !.isPlaying = FALSE, !.status = "FileStopped"])

stopFile(s) ==
  LET a == IF s.fileSourceNode # Null
           THEN [StopSource(DisconnectSource(s, s.fileSourceNode), s.fileSourceNode)
                   EXCEPT !.fileSourceNode = Null]
           ELSE s
  IN stopTimeUpdate([drawTimelineGauge(a, 0)
                       EXCEPT !.isPlaying = FALSE, !.currentTimeText = 0,
                              !.status = "FileStopped"])

\* elapsed, as the interval callback computes it
Elapsed(s) == s.clock - s.playStartTime + s.pausedTime

\* Math.min(elapsed / fileDuration, 1) * 100
Progress(s) == (Min(Elapsed(s), s.fileDuration) * 100) \div s.fileDuration

\* The setInterval callback of startTimeUpdate.
timeUpdateTick(s) ==
  IF s.isPlaying /\ s.audioCtx
  THEN LET a == [drawTimelineGauge(s, Progress(s)) EXCEPT !.currentTimeText = Elapsed(s)]
       IN IF Elapsed(s) >= s.fileDuration /\ ~s.isRepeating THEN stopFile(a) ELSE a
  ELSE s

\* fileSourceNode.onended
onended(s) == IF ~s.isRepeating THEN pauseFile(s) ELSE s

\* A seek that moves the position and schedules the restart without pausing.
seekToPositionWithoutPause(s, progressPercent) ==
  IF s.inputMode # "file" \/ s.fileBuffer = Null THEN s
  ELSE LET b == [drawTimelineGauge(s, progressPercent)
                   EXCEPT !.currentTimeText = (progressPercent * s.fileDuration) \div 100]
       IN IF s.isPlaying THEN [b EXCEPT !.pendingSeek = @ + 1] ELSE b

seekToPosition(s, progressPercent) ==
  IF s.inputMode # "file" \/ s.fileBuffer = Null THEN s
  ELSE LET a == IF s.isPlaying THEN pauseFile(s) ELSE s
           b == [drawTimelineGauge(a, progressPercent)
                   EXCEPT !.currentTimeText = (progressPercent * a.fileDuration) \div 100]
       IN IF s.isPlaying THEN [b EXCEPT !.pendingSeek = @ + 1] ELSE b

\* The callback of the setTimeout(() => playFile(), 100) of seekToPosition.
seekRestart(s) == playFile([s EXCEPT !.pendingSeek = @ - 1])

toggleRepeat(s) ==
  LET a == [s EXCEPT !.isRepeating = ~s.isRepeating]
  IN IF a.fileSourceNode # Null
     THEN [a EXCEPT !.srcs[a.fileSourceNode].loop = a.isRepeating] ELSE a

\* ---------------------------------------------------------- BandSelector
\* A clear that forgets the frequency range and keeps the pixel range.
clearBandKeepPixels(s) ==
  [connectAudioPipeline([s EXCEPT !.selectedBandHz = NoBand,
                                  !.dragStartX = NoX, !.dragEndX = NoX])
     EXCEPT !.status = "Info"]

clearBand(s) ==
  [connectAudioPipeline([s EXCEPT !.selectedBandHz = NoBand,
                                  !.selectedBandPixels = NoPixels,
                                  !.dragStartX = NoX, !.dragEndX = NoX])
     EXCEPT !.status = "Info"]

\* The window mouseup handler, once dragging is known to be set.
mouseUp(s) ==
  LET a == [s EXCEPT !.dragging = FALSE]
      x1 == Min(s.dragStartX, s.dragEndX)
      x2 == Max(s.dragStartX, s.dragEndX)
      b == IF s.dragStartX # NoX /\ s.dragEndX # NoX
           THEN IF x1 >= 0 /\ x2 <= PlotWidth /\ x2 - x1 >= MinDragPixels
                THEN [connectAudioPipeline(
                        [a EXCEPT !.selectedBandPixels = [x1 |-> x1, x2 |-> x2],
                                  !.selectedBandHz =
                                     [lo |-> canvasXToHz(x1, PlotWidth),
                                      hi |-> canvasXToHz(x2, PlotWidth)]])
                        EXCEPT !.status = "Info"]
                ELSE clearBand(a)
           ELSE a
  IN [b EXCEPT !.dragStartX = NoX, !.dragEndX = NoX]

\* ----------------------------------------------------------- PeakTracker
\* A hold that follows the sample down as well as up.
PeakFollow(cur, peak) == cur

\* Math.max(cur, peakBins[i])
PeakHold(cur, peak) == Max(cur, peak)

\* The peak-hold part of drawSpectrum for one frame of samples freqData.
drawSpectrum(s, freqData) ==
  LET n == NumBins
      held == IF s.peakBins = NoPeaks \/ Len(s.peakBins) # n
              THEN [i \in 1..n |-> PeakFloor] ELSE s.peakBins
  IN [s EXCEPT !.peakBins = [i \in 1..n |-> PeakHold(freqData[i], held[i])]]

\* drawLoop: one animation frame.
drawLoop(s, freqData) ==
  IF ~s.audioCtx \/ ~s.visualAnalyser THEN s ELSE drawSpectrum(s, freqData)

resetMaxPeaks(s) ==
  [(IF s.peakBins # NoPeaks
    THEN [s EXCEPT !.peakBins = [i \in 1..Len(s.peakBins) |-> PeakFloor]]
    ELSE s) EXCEPT !.status = "Info"]


\* ------------------------------------- teardown in which a call throws
\* The calls of the block fileSourceNode.disconnect(); fileSourceNode.stop().
TeardownCalls == {"disconnect", "stop"}

\* The disconnect calls at the head of connectAudioPipeline, in their order.
PipelineCalls == <<"highpass", "lowpass", "gainOut", "visualAnalyser", "source">>

\* disconnect(); stop() on node n up to the call that throws.
TeardownNodeUntil(s, n, call) ==
  IF call = "disconnect" THEN s ELSE DisconnectSource(s, n)

\* The head of connectAudioPipeline up to the call that throws: one try holds
\* all five calls, so the calls after the throwing one are skipped.
DisconnectPipelineUntil(s, call) ==
  LET k == CHOOSE i \in 1..Len(PipelineCalls) : PipelineCalls[i] = call
      a == IF k > 1 /\ s.highpass THEN DisconnectNode(s, "highpass") ELSE s
      b == IF k > 2 /\ a.lowpass THEN DisconnectNode(a, "lowpass") ELSE a
  IN IF k > 3 THEN DisconnectNode(b, "gainOut") ELSE b

\* connectAudioPipeline when a disconnect call throws: the empty catch
\* swallows the exception and the function goes on to connect.
connectAudioPipelineThrowing(s, call) ==
  IF s.currentSourceNode = Null \/ ~s.gainOut \/ ~s.visualAnalyser THEN s
  ELSE LET a == ConnectOutputPath(DisconnectPipelineUntil(s, call))
           b == ConnectNode([a EXCEPT !.gainValue = EffectiveGain(a)],
                            "gainOut", "destination")
       IN ConnectSource(b, b.currentSourceNode, "visualAnalyser")

clearBandThrowing(s, call) ==
  [connectAudioPipelineThrowing([s EXCEPT !.selectedBandHz = NoBand,
                                          !.selectedBandPixels = NoPixels,
                                          !.dragStartX = NoX, !.dragEndX = NoX],
                                call)
     EXCEPT !.status = "Info"]

\* pauseFile when a call of its try block throws: the catch logs a warning and
\* the bookkeeping after the block runs.
pauseFileThrowing(s, call) ==
  IF s.fileSourceNode # Null /\ s.isPlaying
  THEN stopTimeUpdate(
         [TeardownNodeUntil(s, s.fileSourceNode, call)
            EXCEPT !.fileSourceNode = Null, !.isPlaying = FALSE, !.status = "Info"])
  ELSE s

stopFileThrowing(s, call) ==
  LET a == IF s.fileSourceNode # Null
           THEN [TeardownNodeUntil(s, s.fileSourceNode, call)
                   EXCEPT !.fileSourceNode = Null]
           ELSE s
  IN stopTimeUpdate([drawTimelineGauge(a, 0)
                       EXCEPT !.isPlaying = FALSE, !.currentTimeText = 0,
                              !.status = "FileStopped"])

switchToRealtimeModeThrowing(s, call) ==
  LET a == IF s.isPlaying /\ s.inputMode = "file"
           THEN stopTimeUpdate(
                  [(IF s.fileSourceNode # Null
                    THEN TeardownNodeUntil(s, s.fileSourceNode, call)
                    ELSE s)
                     EXCEPT !.fileSourceNode = Null, !.isPlaying = FALSE])
           ELSE s
      b == IF a.inputMode # "realtime"
           THEN LET c == stopCurrentInput(a)
                IN [c EXCEPT !.inputMode = "realtime",
                             !.currentSourceNode = c.realtimeSourceNode]
           ELSE a
  IN IF b.gainOut THEN [b EXCEPT !.gainValue = EffectiveGain(b)] ELSE b

\* stopCurrentInput when a call of its file branch throws: there is no try, so
\* the function is left at the throw.
stopCurrentInputThrowing(s, call) ==
  IF s.inputMode = "file" /\ s.fileSourceNode # Null
  THEN TeardownNodeUntil(s, s.fileSourceNode, call)
  ELSE stopCurrentInput(s)

\* ---------------------------------------------------------------- Init
\* The globals as the script's declarations leave them.
InitGlobals ==
  /\ audioCtx = FALSE /\ clock = 0 /\ mediaStream = Null
  /\ currentSourceNode = Null /\ realtimeSourceNode = Null /\ fileSourceNode = Null
  /\ inputMode = "none"
  /\ isPlaying = FALSE /\ isRepeating = FALSE /\ isRealtimeActive = FALSE
  /\ fileBuffer = Null /\ fileDuration = 0
  /\ gainOut = FALSE /\ highpass = FALSE /\ lowpass = FALSE /\ visualAnalyser = FALSE
  /\ gainValue = 0 /\ highpassFreq = 0 /\ lowpassFreq = 0
  /\ outputEnabled = FALSE
  /\ volumeLevel = 100          \* init() calls updateVolume(100)
  /\ srcs = <<>> /\ conns = {}
  /\ dragging = FALSE /\ dragStartX = NoX /\ dragEndX = NoX
  /\ selectedBandHz = NoBand /\ selectedBandPixels = NoPixels
  /\ currentTimelineProgress = 0 /\ currentTimeText = 0
  /\ timeUpdateInterval = FALSE /\ leakedInterval = FALSE
  /\ playStartTime = 0 /\ pausedTime = 0
  /\ timelineSlider \in TimelineSliders
  /\ status = "Info"
  /\ peakBins = NoPeaks
  /\ pendingStart = 0 /\ pendingRead = 0 /\ pendingDecode = 0 /\ pendingSeek = 0

\* No frequency-map call is being followed.
NoMapCall == mapWidth = PlotWidth /\ mapX = NoX /\ mapHz = NoHz /\ mapOutX = NoX

\* No disconnect or stop call has thrown.
NoneThrown == thrown = NoThrow /\ escaped = FALSE

\* let lastFrameTime = 0; no frame has been requested.
NoLoop == lastFrameTime = 0 /\ pendingFrames = 0

\* let audioCtx = null, gainOut = null, ...: nothing has been made.
NoneCreated == created = [o \in PersistentObjects |-> 0]

Init == InitGlobals /\ NoMapCall /\ NoneThrown /\ NoLoop /\ NoneCreated

\* -------------------------------------------------------------- actions
\* btnStart click: startAudio up to its await of getUserMedia.  The script
\* disables the button where it sets isRealtimeActive and enables it where it
\* clears the flag, so a click arrives only while the flag is false.
StartAudio ==
  /\ ~isRealtimeActive
  /\ Pending(G) < MaxPending
  /\ Commit([stopCurrentInput(G) EXCEPT !.pendingStart = @ + 1])

\* startAudio after getUserMedia resolved.
startAudioResolved(s) ==
  LET n == NextId(s)
      a == initializeAudioNodes([s EXCEPT !.mediaStream = n, !.audioCtx = TRUE])
      b == [CreateSource(a, "mic")
              EXCEPT !.realtimeSourceNode = n, !.currentSourceNode = n,
                     !.inputMode = "realtime"]
      c == switchToRealtimeMode(connectAudioPipeline(b))
  IN [c EXCEPT !.isRealtimeActive = TRUE, !.status = "Info"]

GetUserMediaResolve ==
  /\ pendingStart > 0
  /\ Len(srcs) < MaxNodes
  /\ CommitStartingLoop(startAudioResolved([G EXCEPT !.pendingStart = @ - 1]),
                        contextToCreate(G)
                          \cup nodesToCreate([G EXCEPT !.audioCtx = TRUE]))

\* btnStart click while an earlier startAudio still waits for getUserMedia: the
\* button is disabled only after the await, so the click is delivered.
StartAudioAgain ==
  /\ ~isRealtimeActive
  /\ pendingStart > 0 /\ pendingStart < MaxStarts
  /\ Commit([stopCurrentInput(G) EXCEPT !.pendingStart = @ + 1])

\* startAudio after getUserMedia resolved when a later step of its try block
\* throws before the source node is connected (new AudioContext or
\* createMediaStreamSource): mediaStream holds the stream, whose tracks run,
\* and the catch block reports the error and calls stopCurrentInput.
startAudioFailedAfterStream(s) ==
  LET n == NextId(s)
  IN stopCurrentInput([CreateSource(s, "mic")
                         EXCEPT !.mediaStream = n, !.status = "StartError"])

GetUserMediaResolveThenThrow ==
  /\ pendingStart > 0
  /\ Len(srcs) < MaxNodes
  /\ Commit(startAudioFailedAfterStream([G EXCEPT !.pendingStart = @ - 1]))

\* A catch block that reports the failure and leaves the input as it is.
startAudioRejectedNoTeardown(s) == [s EXCEPT !.status = "StartError"]

\* startAudio's catch block after getUserMedia rejected.
startAudioRejected(s) == stopCurrentInput([s EXCEPT !.status = "StartError"])

GetUserMediaReject ==
  /\ pendingStart > 0
  /\ Commit(startAudioRejected([G EXCEPT !.pendingStart = @ - 1]))

StopAudio ==
  /\ Commit(stopAudio(G))

SwitchToRealtimeMode ==
  /\ Commit(switchToRealtimeMode(G))

SwitchToFileMode ==
  /\ Commit(switchToFileMode(G))

\* fileInput change: the handler up to its await of file.arrayBuffer().
fileChange(s) == [stopCurrentInput([s EXCEPT !.status = "Info"]) EXCEPT !.pendingRead = @ + 1]

FileChange ==
  /\ Pending(G) < MaxPending
  /\ Commit(fileChange(G))

\* ... after arrayBuffer() resolved, up to the await of decodeAudioData.
FileReadResolve ==
  /\ pendingRead > 0
  /\ Assign([G EXCEPT !.pendingRead = @ - 1, !.pendingDecode = @ + 1,
                      !.audioCtx = TRUE])
  /\ created' = Made(created, contextToCreate(G))
  /\ UNCHANGED <<mapWidth, mapX, mapHz, mapOutX, thrown, escaped,
                 lastFrameTime, pendingFrames>>

\* The handler's catch block.
fileLoadFailed(s) == [s EXCEPT !.status = "LoadError"]

FileReadReject ==
  /\ pendingRead > 0
  /\ Commit(fileLoadFailed([G EXCEPT !.pendingRead = @ - 1]))

\* ... after decodeAudioData resolved.
fileDecoded(s, d) ==
  LET a == switchToFileMode(
             initializeAudioNodes([s EXCEPT !.fileBuffer = d, !.fileDuration = d]))
  IN [drawTimelineGauge(a, 0) EXCEPT !.currentTimeText = 0, !.status = "Info"]

DecodeResolve ==
  /\ pendingDecode > 0
  /\ \E d \in Durations :
       CommitStartingLoop(fileDecoded([G EXCEPT !.pendingDecode = @ - 1], d),
                          nodesToCreate(G))

DecodeReject ==
  /\ pendingDecode > 0
  /\ Commit(fileLoadFailed([G EXCEPT !.pendingDecode = @ - 1]))

\* btnPlay click
PlayFile ==
  /\ fileBuffer # Null /\ audioCtx
  /\ Len(srcs) < MaxNodes
  /\ Commit(playFile(G))

PauseFile ==
  /\ Commit(pauseFile(G))

StopFile ==
  /\ Commit(stopFile(G))

\* timelineGauge click
SeekClick ==
  /\ inputMode = "file" /\ fileDuration > 0
  /\ isPlaying => Pending(G) < MaxPending
  /\ \E p \in SeekPercents : Commit(seekToPosition(G, p))

\* The setTimeout(() => playFile(), 100) of seekToPosition fires.
SeekTimer ==
  /\ pendingSeek > 0
  /\ (fileBuffer # Null /\ audioCtx) => Len(srcs) < MaxNodes
  /\ Commit(seekRestart(G))

ToggleRepeat ==
  /\ Commit(toggleRepeat(G))

\* An interval started by startTimeUpdate fires.
TimeUpdateTick ==
  /\ timeUpdateInterval \/ leakedInterval
  /\ Commit(timeUpdateTick(G))

\* The ended event of a buffer source: after stop(), or at the end of the buffer.
EndedDue(s, n) ==
  /\ s.srcs[n].kind = "file" /\ ~s.srcs[n].notified
  /\ \/ ~s.srcs[n].live
     \/ ~s.srcs[n].loop /\ s.clock - s.srcs[n].t0 >= s.srcs[n].dur - s.srcs[n].off

EndedOf(n) ==
  /\ EndedDue(G, n)
  /\ Commit(IF srcs[n].onended THEN onended(MarkEnded(G, n)) ELSE MarkEnded(G, n))

Ended == \E n \in 1..Len(srcs) : EndedOf(n)

\* The audio clock advances.
Tick ==
  /\ audioCtx /\ clock < MaxClock
  /\ clock' = clock + 1
  /\ UNCHANGED <<audioCtx, mediaStream, currentSourceNode, realtimeSourceNode,
          fileSourceNode, inputMode, isPlaying, isRepeating, isRealtimeActive,
          fileBuffer, fileDuration, gainOut, highpass, lowpass, visualAnalyser,
          gainValue, highpassFreq, lowpassFreq, outputEnabled, volumeLevel,
          srcs, conns, dragging, dragStartX, dragEndX, selectedBandHz,
          selectedBandPixels, currentTimelineProgress, currentTimeText,
          timeUpdateInterval, leakedInterval, playStartTime, pausedTime,
          timelineSlider, status, peakBins, pendingStart, pendingRead,
          pendingDecode, pendingSeek, mapWidth, mapX, mapHz, mapOutX,
          thrown, escaped, lastFrameTime, pendingFrames, created>>

\* An output toggle that mutes by unwiring the gain node from the destination.
toggleOutputByUnwiring(s) ==
  LET a == [s EXCEPT !.outputEnabled = ~s.outputEnabled]
  IN IF a.outputEnabled THEN ConnectNode(a, "gainOut", "destination")
     ELSE DisconnectNode(a, "gainOut")

\* btnOutput click
toggleOutput(s) == updateCurrentVolume([s EXCEPT !.outputEnabled = ~s.outputEnabled])

ToggleOutput ==
  /\ Commit(toggleOutput(G))

updateVolume(s, volumePercent) ==
  [updateCurrentVolume([s EXCEPT !.volumeLevel = volumePercent]) EXCEPT !.status = "Info"]

UpdateVolume == \E p \in VolumePercents : Commit(updateVolume(G, p))

\* specCanvas mousedown with the left button
MouseDown ==
  \E x \in MouseXs :
    /\ x >= 0 /\ x <= PlotWidth
    /\ Commit([G EXCEPT !.dragging = TRUE, !.dragStartX = x, !.dragEndX = x])

\* window mousemove
MouseMove ==
  \E x \in MouseXs :
    /\ dragging
    /\ Commit([G EXCEPT !.dragEndX = Max(0, Min(PlotWidth, x))])

\* window mouseup
MouseUp ==
  /\ dragging
  /\ Commit(mouseUp(G))

\* btnClear click
ClearBand ==
  /\ Commit(clearBand(G))

\* The frames requested once drawLoop has run with `pending` of them
\* outstanding: the callback that ran is gone, and drawLoop requests the next
\* one unless it returned at one of its two guards.
framesAfterDrawLoop(s, pending) ==
  IF ~s.audioCtx \/ ~s.visualAnalyser THEN pending - 1 ELSE pending

\* An animation frame: the browser runs a requested drawLoop callback.
DrawFrame ==
  \E freqData \in [1..NumBins -> SampleLevels] :
    /\ pendingFrames > 0
    /\ Assign(drawLoop(G, freqData))
    /\ pendingFrames' = framesAfterDrawLoop(G, pendingFrames)
    /\ lastFrameTime' = IF ~audioCtx \/ ~visualAnalyser THEN lastFrameTime ELSE 1
    /\ UNCHANGED <<mapWidth, mapX, mapHz, mapOutX, thrown, escaped, created>>

\* specCanvas mousedown with the right button inside the plot.
ResetMaxPeaks ==
  \E x \in MouseXs :
    /\ x >= 0 /\ x <= PlotWidth
    /\ Commit(resetMaxPeaks(G))

\* Source selection, file transport and playback clock.
\* The file-load handler when its stopCurrentInput throws: the handler's catch
\* reports the error and the load is abandoned.
fileChangeThrowing(s, call) ==
  fileLoadFailed(stopCurrentInputThrowing([s EXCEPT !.status = "Info"], call))

\* The operations in which one disconnect or stop call throws; at most one
\* call throws in a behaviour.
Throws(s, in, call, esc) ==
  /\ thrown = NoThrow
  /\ Assign(s)
  /\ thrown' = [in |-> in, call |-> call] /\ escaped' = esc
  /\ UNCHANGED <<mapWidth, mapX, mapHz, mapOutX, lastFrameTime, pendingFrames,
                 created>>

PauseFileThrows ==
  /\ fileSourceNode # Null /\ isPlaying
  /\ \E call \in TeardownCalls :
       Throws(pauseFileThrowing(G, call), "pauseFile", call, FALSE)

StopFileThrows ==
  /\ fileSourceNode # Null
  /\ \E call \in TeardownCalls :
       Throws(stopFileThrowing(G, call), "stopFile", call, FALSE)

SwitchToRealtimeModeThrows ==
  /\ isPlaying /\ inputMode = "file" /\ fileSourceNode # Null
  /\ \E call \in TeardownCalls :
       Throws(switchToRealtimeModeThrowing(G, call), "switchToRealtimeMode",
              call, FALSE)

FileChangeThrows ==
  /\ inputMode = "file" /\ fileSourceNode # Null
  /\ \E call \in TeardownCalls :
       Throws(fileChangeThrowing(G, call), "stopCurrentInput", call, TRUE)

ClearBandThrows ==
  /\ currentSourceNode # Null /\ gainOut /\ visualAnalyser
  /\ \E k \in 1..Len(PipelineCalls) :
       Throws(clearBandThrowing(G, PipelineCalls[k]), "connectAudioPipeline",
              PipelineCalls[k], FALSE)

Next ==
  \/ StartAudio \/ GetUserMediaResolve \/ GetUserMediaReject \/ StopAudio
  \/ SwitchToRealtimeMode \/ SwitchToFileMode
  \/ FileChange \/ FileReadResolve \/ FileReadReject \/ DecodeResolve \/ DecodeReject
  \/ PlayFile \/ PauseFile \/ StopFile \/ SeekClick \/ SeekTimer \/ ToggleRepeat
  \/ TimeUpdateTick \/ Ended \/ Tick

Spec == Init /\ [][Next]_vars

\* The same with the output toggle and the volume gauge, in the behaviours in
\* which the repeat button is left alone.
NextGain ==
  \/ StartAudio \/ GetUserMediaResolve \/ GetUserMediaReject \/ StopAudio
  \/ SwitchToRealtimeMode \/ SwitchToFileMode
  \/ FileChange \/ FileReadResolve \/ FileReadReject \/ DecodeResolve \/ DecodeReject
  \/ PlayFile \/ PauseFile \/ StopFile \/ SeekClick \/ SeekTimer
  \/ TimeUpdateTick \/ Ended \/ Tick
  \/ ToggleOutput \/ UpdateVolume

SpecGain == Init /\ [][NextGain]_vars

\* Band selection over the source operations that wire and unwire the graph,
\* in the behaviours in which no acquisition fails and the clock stands still
\* (stopFile unwires the file node exactly as pauseFile does and is left out).
NextBand ==
  \/ StartAudio \/ GetUserMediaResolve \/ StopAudio
  \/ SwitchToRealtimeMode \/ SwitchToFileMode
  \/ FileChange \/ FileReadResolve \/ DecodeResolve
  \/ PlayFile \/ PauseFile
  \/ MouseDown \/ MouseMove \/ MouseUp \/ ClearBand

SpecBand == Init /\ [][NextBand]_vars

\* The render loop and the peak reset over realtime capture, the output toggle
\* and clicks on the spectrum.
NextPeaks ==
  \/ StartAudio \/ GetUserMediaResolve \/ StopAudio
  \/ ToggleOutput
  \/ MouseDown \/ MouseUp \/ ClearBand
  \/ DrawFrame \/ ResetMaxPeaks

SpecPeaks == Init /\ [][NextPeaks]_vars

\* Band selection and the output toggle over capture and file playback, in the
\* behaviours in which no acquisition fails and the clock stands still.
NextTap ==
  \/ StartAudio \/ GetUserMediaResolve \/ StopAudio
  \/ FileChange \/ FileReadResolve \/ DecodeResolve
  \/ PlayFile \/ PauseFile
  \/ MouseDown \/ MouseMove \/ MouseUp \/ ClearBand
  \/ ToggleOutput

SpecTap == Init /\ [][NextTap]_vars

\* The output toggle and the volume over file playback and band selection, in
\* the behaviours in which no load fails and the clock stands still.
NextVolume ==
  \/ FileChange \/ FileReadResolve \/ DecodeResolve
  \/ PlayFile \/ PauseFile
  \/ MouseDown \/ MouseMove \/ MouseUp
  \/ ToggleOutput \/ UpdateVolume

SpecVolume == Init /\ [][NextVolume]_vars

\* File playback and band selection with the teardowns in which a call throws.
NextTeardown ==
  \/ FileChange \/ FileReadResolve \/ DecodeResolve
  \/ PlayFile \/ PauseFile
  \/ MouseDown \/ MouseMove \/ MouseUp \/ ClearBand
  \/ PauseFileThrows \/ StopFileThrows \/ SwitchToRealtimeModeThrows
  \/ FileChangeThrows \/ ClearBandThrows

SpecTeardown == Init /\ [][NextTeardown]_vars

\* Capture, file loading and playback with the animation frames of the render
\* loop.
NextLoop ==
  \/ StartAudio \/ GetUserMediaResolve \/ GetUserMediaReject \/ StopAudio
  \/ SwitchToRealtimeMode \/ SwitchToFileMode
  \/ FileChange \/ FileReadResolve \/ FileReadReject \/ DecodeResolve \/ DecodeReject
  \/ PlayFile \/ PauseFile \/ StopFile
  \/ DrawFrame

SpecLoop == Init /\ [][NextLoop]_vars

\* Capture and file loading with overlapping starts and with starts that fail
\* once the stream has been obtained.
NextStreams ==
  \/ StartAudio \/ StartAudioAgain
  \/ GetUserMediaResolve \/ GetUserMediaReject \/ GetUserMediaResolveThenThrow
  \/ StopAudio \/ SwitchToRealtimeMode \/ SwitchToFileMode
  \/ FileChange \/ FileReadResolve \/ DecodeResolve
  \/ PlayFile \/ PauseFile

SpecStreams == Init /\ [][NextStreams]_vars

\* ---------------------------------------------------------- FrequencyMap
\* Plot widths, 14 times a power of two.
MapWidths == {28, 56, 112}

\* Frequencies handed to hzToCanvasX, in units of 1/HzScale Hz: every
\* breakpoint, points inside segments, below 1 Hz and above the last
\* breakpoint, each with the half Hz on either side.
MapFrequencies ==
  {f * HzScale + d :
     f \in {FrequencyValues[i] : i \in 1..Len(FrequencyValues)}
             \cup {1, 7, 25, 75, 150, 450, 1500, 3000, 7500, 12000},
     d \in {0 - (HzScale \div 2), 0, HzScale \div 2}} \ {0 - (HzScale \div 2)}

\* A call of canvasXToHz(x, width) or of hzToCanvasX(hz, width) is to be made.
InitMap ==
  /\ InitGlobals
  /\ NoneThrown
  /\ NoLoop
  /\ NoneCreated
  /\ mapWidth \in MapWidths /\ mapOutX = NoX
  /\ \/ mapX \in 0..mapWidth /\ mapHz = NoHz
     \/ mapX = NoX /\ mapHz \in MapFrequencies

UnchangedGlobals ==
  UNCHANGED <<audioCtx, clock, mediaStream, currentSourceNode, realtimeSourceNode,
          fileSourceNode, inputMode, isPlaying, isRepeating, isRealtimeActive,
          fileBuffer, fileDuration, gainOut, highpass, lowpass, visualAnalyser,
          gainValue, highpassFreq, lowpassFreq, outputEnabled, volumeLevel,
          srcs, conns, dragging, dragStartX, dragEndX, selectedBandHz,
          selectedBandPixels, currentTimelineProgress, currentTimeText,
          timeUpdateInterval, leakedInterval, playStartTime, pausedTime,
          timelineSlider, status, peakBins, pendingStart, pendingRead,
          pendingDecode, pendingSeek, thrown, escaped, lastFrameTime,
          pendingFrames, created>>

CanvasXToHz ==
  /\ mapX # NoX /\ mapHz = NoHz
  /\ mapHz' = canvasXToHzScaled(mapX, mapWidth)
  /\ UNCHANGED <<mapWidth, mapX, mapOutX>>
  /\ UnchangedGlobals

HzToCanvasX ==
  /\ mapHz # NoHz /\ mapOutX = NoX
  /\ mapOutX' = hzToCanvasX(mapHz, mapWidth)
  /\ UNCHANGED <<mapWidth, mapX, mapHz>>
  /\ UnchangedGlobals

NextMap == CanvasXToHz \/ HzToCanvasX

SpecMap == InitMap /\ [][NextMap]_vars


\* ====================================================================
\* Properties
\* ====================================================================
Nodes == 1..Len(srcs)

GraphInputs == {"gainOut", "highpass", "visualAnalyser"}

\* Source nodes with a connection into the graph.
ConnectedSources == {n \in Nodes : srcs[n].out \cap GraphInputs # {}}

\* A microphone source with running tracks / a started buffer source that has
\* neither been stopped nor ended, connected into the graph.
MicRunning == \E n \in Nodes : srcs[n].kind = "mic" /\ srcs[n].live /\ srcs[n].out # {}

FileRunning == \E n \in Nodes : srcs[n].kind = "file" /\ srcs[n].live /\ srcs[n].out # {}

\* C1 (as claimed): after any sequence of operations at most one source node
\* is connected to the graph input (gain, highpass or analysis tap).
C1_MutualExclusion == Cardinality(ConnectedSources) <= 1

\* C2 (as claimed): whenever the gain node exists, in every source mode, its
\* value is volumeLevel when output is enabled and 0 when it is disabled.
C2_GainInvariant == gainOut => gainValue = EffectiveGain(G)

\* The buffer position of a playing, non-looping buffer source n.
NodePosition(n) == Min(srcs[n].off + (clock - srcs[n].t0), srcs[n].dur)

\* The current playback node was started by a play that ran to completion, does
\* not repeat, and has played its buffer to the end.
AtNaturalEnd ==
  /\ isPlaying /\ fileSourceNode # Null /\ ~isRepeating
  /\ srcs[fileSourceNode].live /\ ~srcs[fileSourceNode].loop
  /\ srcs[fileSourceNode].onended
  /\ NodePosition(fileSourceNode) = srcs[fileSourceNode].dur

\* C3 (as claimed): at the natural end of non-repeating playback that has
\* reported a position past the start, whichever of the ended callback and the
\* elapsed-time poller (once it has seen elapsed >= duration) runs first, the
\* transport is left Paused (not playing, node discarded); the reported
\* position is not taken back, and the poller, which computes it, leaves it at
\* the duration rather than at 0.
C3_NaturalEndPauses ==
  [][(/\ AtNaturalEnd /\ currentTimelineProgress > 0
      /\ \/ TimeUpdateTick /\ Elapsed(G) >= fileDuration
         \/ EndedOf(fileSourceNode))
       => /\ ~isPlaying' /\ fileSourceNode' = Null
          /\ currentTimeText' >= currentTimeText
          /\ currentTimelineProgress' >= currentTimelineProgress
          /\ TimeUpdateTick => /\ currentTimeText' = fileDuration
                               /\ currentTimelineProgress' = 100]_vars

\* C4 (as claimed): pausing at elapsed position e, with the display up to date
\* (a poll now would report what is shown), leaves e as the offset the next
\* play (with no seek in between) starts its node at.
C4_ResumeAtPausedPosition ==
  [][(/\ isPlaying /\ fileSourceNode # Null /\ inputMode = "file"
      /\ srcs[fileSourceNode].live /\ ~srcs[fileSourceNode].loop
      /\ srcs[fileSourceNode].onended
      /\ currentTimeText = Elapsed(G)
      /\ PauseFile)
       => PlayStartOffset(G)' = NodePosition(fileSourceNode)]_vars

\* C5 (as claimed): in file mode with a decoded buffer, play at the progress
\* fraction f makes a fresh node, starts it at f*D, sets the anchor to the audio
\* clock and pausedOffset to f*D, ends Playing without error; and every later
\* position report is f*D plus the clock time elapsed since the anchor.
C5_PlayFromFraction ==
  [][/\ (inputMode = "file" /\ PlayFile)
          => /\ fileSourceNode' = Len(srcs) + 1
             /\ srcs'[fileSourceNode'].off = PlayStartOffset(G)
             /\ srcs'[fileSourceNode'].live
             /\ playStartTime' = clock
             /\ pausedTime' = PlayStartOffset(G)
             /\ isPlaying'
             /\ status' # "PlaybackError"
     /\ (/\ inputMode = "file" /\ isPlaying /\ fileSourceNode # Null
         /\ srcs[fileSourceNode].live /\ ~srcs[fileSourceNode].loop
         /\ NodePosition(fileSourceNode) < srcs[fileSourceNode].dur
         /\ TimeUpdateTick)
          => currentTimeText' = NodePosition(fileSourceNode)]_vars

\* A file playing in file mode / a capture running in realtime mode.
FilePlaying == inputMode = "file" /\ isPlaying /\ FileRunning

Capturing == inputMode = "realtime" /\ MicRunning

\* C6 (as claimed): switchToRealtimeMode running while a file is playing in
\* file mode (from its button, or from startAudio once the stream is there)
\* leaves the file source stopped and the transport not playing;
\* switchToFileMode while capture runs in realtime mode leaves the microphone
\* stopped; and in neither case do both sources run afterwards.
C6_ModeSwitchStopsOther ==
  [][/\ ((SwitchToRealtimeMode \/ GetUserMediaResolve) /\ FilePlaying)
          => (~FileRunning' /\ ~isPlaying')
     /\ (SwitchToFileMode /\ Capturing) => ~MicRunning'
     /\ (/\ SwitchToRealtimeMode \/ GetUserMediaResolve \/ SwitchToFileMode
         /\ FilePlaying \/ Capturing)
          => ~(MicRunning' /\ FileRunning')]_vars

\* What a failed load must leave alone: the installed buffer, the mode, the
\* current source, the transport and every source node.
LoadLeavesUntouched ==
  /\ fileBuffer' = fileBuffer /\ fileDuration' = fileDuration
  /\ inputMode' = inputMode /\ currentSourceNode' = currentSourceNode
  /\ realtimeSourceNode' = realtimeSourceNode /\ fileSourceNode' = fileSourceNode
  /\ isPlaying' = isPlaying /\ srcs' = srcs

\* C7 (as claimed): on the path of a load that fails (choosing the file, the
\* read, the catch block) the failure is reported, no buffer is installed, and
\* the mode, current source and transport of a running capture or playback are
\* as before the file was chosen.
C7_DecodeFailureKeepsState ==
  [][/\ ((FileChange \/ FileReadResolve \/ FileReadReject \/ DecodeReject)
         /\ (MicRunning \/ (isPlaying /\ FileRunning)))
          => LoadLeavesUntouched
     /\ (FileReadReject \/ DecodeReject) => status' = "LoadError"]_vars

C9_FilterOrdering ==
  (highpass /\ lowpass) => lowpassFreq >= highpassFreq + MinBandwidthHz

\* A wired band whose lo is below 10 Hz and whose hi is less than 10 Hz above
\* the highpass cutoff: both cutoffs come from the clamps.
C9_Witness ==
  /\ selectedBandHz # NoBand
  /\ selectedBandHz.lo < MinCutoffHz
  /\ selectedBandHz.hi < highpassFreq + MinBandwidthHz
  /\ highpassFreq = MinCutoffHz
  /\ \E n \in Nodes : "highpass" \in srcs[n].out

\* The steps that run connectAudioPipeline past its guard: a play, a start
\* whose stream arrived, and a band committed or cleared (a mouseup that ends a
\* drag, the clear button) while there is a current source.
Rewires ==
  \/ PlayFile \/ GetUserMediaResolve
  \/ /\ (MouseUp /\ dragStartX # NoX /\ dragEndX # NoX) \/ ClearBand
     /\ currentSourceNode # Null /\ gainOut /\ visualAnalyser

FilteredTopology == {<<"highpass", "lowpass">>, <<"lowpass", "gainOut">>,
                     <<"gainOut", "destination">>}

DirectTopology == {<<"gainOut", "destination">>}

\* The graph as a rewire leaves it for the current source: the connections of
\* the topology the band selects, the cutoffs from the band, nothing else.
Rewired ==
  IF selectedBandHz # NoBand
  THEN /\ srcs[currentSourceNode].out = {"highpass", "visualAnalyser"}
       /\ conns = FilteredTopology
       /\ highpassFreq = Max(10, selectedBandHz.lo)
       /\ lowpassFreq = Max(highpassFreq + 10, selectedBandHz.hi)
  ELSE /\ srcs[currentSourceNode].out = {"gainOut", "visualAnalyser"}
       /\ conns = DirectTopology

\* C10: after connectAudioPipeline has run with a current source, the graph is
\* exactly source -> highpass -> lowpass -> gain -> output with highpass =
\* max(10, lo) and lowpass = max(highpass + 10, hi) when a band is selected, and
\* exactly source -> gain -> output when none is; either way the source also
\* feeds the analysis tap and keeps no connection of the other topology.
\* (Stated as: a step that leaves a current source with any other graph is no
\* step that ran connectAudioPipeline.)
C10_RewireResult ==
  [][(currentSourceNode' # Null /\ ~Rewired') => ~Rewires]_vars

\* A band with lo >= 10 Hz wired through the filters for the current source.
C10_Witness ==
  /\ currentSourceNode # Null /\ selectedBandHz # NoBand
  /\ selectedBandHz.lo >= MinCutoffHz
  /\ srcs[currentSourceNode].out = {"highpass", "visualAnalyser"}
  /\ conns = FilteredTopology
  /\ highpassFreq = selectedBandHz.lo /\ lowpassFreq = selectedBandHz.hi

\* Source nodes connected to the audible path, through the filters / directly.
ThroughFilters == {n \in Nodes : "highpass" \in srcs[n].out}

DirectToGain == {n \in Nodes : "gainOut" \in srcs[n].out}

\* C11 (as claimed): in every reachable state a source connected to the audible
\* path reaches it through the highpass and lowpass filters exactly when a band
\* is committed, and directly at the gain node exactly when none is.
C11_TopologyFollowsSelection ==
  /\ ThroughFilters # {} => (selectedBandHz # NoBand /\ DirectToGain = {})
  /\ DirectToGain # {} => (selectedBandHz = NoBand /\ ThroughFilters = {})

\* C12 (as claimed): every committed band has hi > lo and lo >= 10 Hz, also
\* when the drag started at the left edge of the plot.
C12_CommittedBandRange ==
  selectedBandHz # NoBand
    => (selectedBandHz.hi > selectedBandHz.lo /\ selectedBandHz.lo >= MinCutoffHz)

\* A step that ends a drag (only the mouseup handler clears dragging), and the
\* pixel span of that drag.
DragEnds == dragging /\ ~dragging' /\ dragStartX # NoX /\ dragEndX # NoX

DragSpan == Max(dragStartX, dragEndX) - Min(dragStartX, dragEndX)

\* C13: a drag that ends with a span below 5 px leaves no pixel range and no
\* frequency range and, when there is a current source, the pass-through graph;
\* a drag that ends with a span of at least 5 px inside the plot commits the
\* pixel range and the frequency range of its two ends together; and before and
\* after every step the pixel range is present exactly when the frequency range
\* is.
C13_EndOfDrag ==
  /\ [][/\ selectedBandPixels = NoPixels <=> selectedBandHz = NoBand
        /\ selectedBandPixels' = NoPixels <=> selectedBandHz' = NoBand]_vars
  /\ [][(DragEnds /\ DragSpan < MinDragPixels)
          => /\ selectedBandHz' = NoBand /\ selectedBandPixels' = NoPixels
             /\ currentSourceNode # Null
                  => (currentSourceNode' = currentSourceNode /\ Rewired')]_vars
  /\ [][(/\ DragEnds /\ DragSpan >= MinDragPixels
         /\ Min(dragStartX, dragEndX) >= 0 /\ Max(dragStartX, dragEndX) <= PlotWidth)
          => /\ selectedBandPixels' = [x1 |-> Min(dragStartX, dragEndX),
                                       x2 |-> Max(dragStartX, dragEndX)]
             /\ selectedBandHz' =
                  [lo |-> canvasXToHz(Min(dragStartX, dragEndX), PlotWidth),
                   hi |-> canvasXToHz(Max(dragStartX, dragEndX), PlotWidth)]]_vars

\* A selection that had been wired through the filters has been cleared: no
\* range of either kind is left and the current source feeds the gain directly.
C13_Witness ==
  /\ ~dragging /\ selectedBandHz = NoBand /\ selectedBandPixels = NoPixels
  /\ highpassFreq = MinCutoffHz
  /\ currentSourceNode # Null
  /\ srcs[currentSourceNode].out = {"gainOut", "visualAnalyser"}
  /\ conns = DirectTopology

C15_Stop ==
  [][(fileBuffer # Null /\ StopFile)
       => /\ ~isPlaying' /\ fileSourceNode' = Null /\ ~timeUpdateInterval'
          /\ fileSourceNode # Null
               => (~srcs'[fileSourceNode].live /\ srcs'[fileSourceNode].out = {})
          /\ currentTimelineProgress' = 0 /\ currentTimeText' = 0
          /\ PlayStartOffset(G)' = 0]_vars

\* Right after a stop (the status still says so) of a file that was played:
\* the position is at 0 and the node that played is stopped and disconnected.
C15_Witness ==
  /\ status = "FileStopped" /\ fileBuffer # Null /\ ~isPlaying /\ fileSourceNode = Null
  /\ currentTimelineProgress = 0 /\ currentTimeText = 0 /\ clock > 0
  /\ ~timeUpdateInterval /\ pendingSeek = 0
  /\ \E n \in Nodes : srcs[n].kind = "file" /\ ~srcs[n].live /\ srcs[n].out = {}

\* C16: seekToPosition(f) while a node plays pauses (node stopped, disconnected
\* and dropped, not playing) and schedules a restart that, run next, leaves a
\* fresh node playing from f*D with the reported position f*D; while nothing
\* plays it writes the stored position and the time text and nothing else (no
\* node, no restart); outside file mode or without a buffer it changes nothing.
C16_Seek ==
  \A p \in SeekPercents :
    LET t == seekToPosition(G, p)
        at == (p * fileDuration) \div 100
    IN IF inputMode # "file" \/ fileBuffer = Null THEN t = G
       ELSE IF isPlaying /\ fileSourceNode # Null
       THEN /\ ~t.isPlaying /\ t.fileSourceNode = Null
            /\ ~t.srcs[fileSourceNode].live /\ t.srcs[fileSourceNode].out = {}
            /\ t.currentTimelineProgress = p /\ t.currentTimeText = at
            /\ t.pendingSeek = pendingSeek + 1
            /\ LET r == seekRestart(t)
                   n == Len(srcs) + 1
               IN /\ r.isPlaying /\ r.fileSourceNode = n /\ Len(r.srcs) = n
                  /\ r.srcs[n].live /\ r.srcs[n].off = at /\ r.srcs[n].t0 = clock
                  /\ r.srcs[n].out # {}
                  /\ r.currentTimelineProgress = p /\ r.currentTimeText = at
                  /\ r.pendingSeek = pendingSeek
       ELSE ~isPlaying
              => t = [G EXCEPT !.currentTimelineProgress = p, !.currentTimeText = at]

\* A seek to the middle of a playing file has paused it and its restart is
\* still to come.
C16_Witness ==
  /\ pendingSeek > 0 /\ inputMode = "file" /\ fileBuffer # Null
  /\ ~isPlaying /\ fileSourceNode = Null /\ currentTimelineProgress = 50
  /\ currentTimeText = 1
  /\ \E n \in Nodes : srcs[n].kind = "file" /\ ~srcs[n].live /\ srcs[n].out = {}
  /\ status = "Info"

\* No microphone capture, no file node and no playback is held.
NothingActive ==
  /\ realtimeSourceNode = Null /\ fileSourceNode = Null /\ currentSourceNode = Null
  /\ ~isPlaying /\ ~timeUpdateInterval

\* C17: from every reachable state each of stopAudio, stopFile, pauseFile and
\* stopCurrentInput applied twice gives the state it gives applied once; and
\* when nothing is active each of them completes without touching a node or a
\* connection and without reporting an error.
C17_IdempotentStop ==
  /\ stopAudio(stopAudio(G)) = stopAudio(G)
  /\ stopFile(stopFile(G)) = stopFile(G)
  /\ pauseFile(pauseFile(G)) = pauseFile(G)
  /\ stopCurrentInput(stopCurrentInput(G)) = stopCurrentInput(G)
  /\ NothingActive
       => /\ pauseFile(G) = G
          /\ stopCurrentInput(G) = [G EXCEPT !.inputMode = "none"]
          /\ stopAudio(G) = [G EXCEPT !.inputMode = IF @ = "realtime" THEN "none" ELSE @,
                                      !.isRealtimeActive = FALSE, !.status = "Info"]
          /\ stopFile(G) = [G EXCEPT !.currentTimelineProgress = 0,
                                     !.currentTimeText = 0, !.status = "FileStopped"]

\* stopFile has run on the freshly loaded page, where nothing is active.
C17_Witness ==
  /\ NothingActive /\ status = "FileStopped" /\ srcs = <<>> /\ fileBuffer = Null
  /\ inputMode = "none" /\ mediaStream = Null

\* C18 (as claimed): a step that brings the mode from realtime or file to none
\* (stopCurrentInput, directly or through stopAudio) leaves no source node
\* connected to the gain node, the filters or the analysis tap.
C18_TransitionToNone ==
  [][(inputMode \in {"realtime", "file"} /\ inputMode' = "none")
       => ConnectedSources' = {}]_vars

\* C19 (as claimed): in every reachable state whose mode is realtime or file,
\* exactly one source node (the microphone stream source or the file buffer
\* source) is connected to the graph input.
C19_ExactlyOneSource ==
  inputMode \in {"realtime", "file"} => Cardinality(ConnectedSources) = 1

AudiblePath == {"gainOut", "highpass"}

\* C20: in every reachable state a source node connected to the gain node or
\* to the highpass filter is connected to the analysis tap too, with or without
\* a selected band and with output enabled or disabled.
C20_TapFollowsSource ==
  \A n \in Nodes :
    srcs[n].out \cap AudiblePath # {} => "visualAnalyser" \in srcs[n].out

\* A running source feeds the filters and the tap while a band is selected and
\* output is disabled.
C20_Witness ==
  /\ ~outputEnabled /\ selectedBandHz # NoBand /\ currentSourceNode # Null
  /\ srcs[currentSourceNode].live
  /\ srcs[currentSourceNode].out = {"highpass", "visualAnalyser"}

\* The fields a gain change may write: the output flag, the volume level, the
\* gain node's value and the status line that echoes the volume.
GainFields == {"outputEnabled", "volumeLevel", "gainValue", "status"}

\* C21: from every reachable state the output toggle and a volume change leave
\* every field of the state but the output flag, the volume level, the gain
\* value and the status text as it was: the connections of every node, both
\* cutoffs, the mode, the current source and the transport are untouched; and
\* the toggle does not write the volume nor the volume change the flag.
C21_GainDoesNotRewire ==
  /\ LET t == toggleOutput(G)
     IN /\ \A f \in DOMAIN G \ GainFields : t[f] = G[f]
        /\ t.volumeLevel = volumeLevel /\ t.status = status
        /\ t.outputEnabled = ~outputEnabled
  /\ \A p \in VolumePercents :
       LET t == updateVolume(G, p)
       IN /\ \A f \in DOMAIN G \ GainFields : t[f] = G[f]
          /\ t.outputEnabled = outputEnabled /\ t.volumeLevel = p

\* Output has been enabled and the volume lowered while a file plays through
\* the filters of a selected band.
C21_Witness ==
  /\ outputEnabled /\ volumeLevel = 50 /\ gainValue = 50
  /\ isPlaying /\ fileSourceNode # Null /\ selectedBandHz # NoBand
  /\ srcs[fileSourceNode].out = {"highpass", "visualAnalyser"}

\* C22: the mode becomes file only with a decoded buffer present; from every
\* reachable state switchToFileMode creates no node, starts and wires none and
\* does not set isPlaying; and a step that creates a file source node is
\* playFile, called by the play button or by the restart of a seek.
C22_EnteringFileMode ==
  [][/\ (inputMode # "file" /\ inputMode' = "file") => fileBuffer' # Null
     /\ LET t == switchToFileMode(G)
        IN /\ Len(t.srcs) = Len(srcs)
           /\ \A n \in Nodes : /\ t.srcs[n].live => srcs[n].live
                                /\ t.srcs[n].out \subseteq srcs[n].out
           /\ t.isPlaying => isPlaying
           /\ t.fileSourceNode = fileSourceNode
           /\ (t.inputMode = "file" /\ inputMode # "file") => fileBuffer # Null
     /\ (Len(srcs') > Len(srcs) /\ srcs'[Len(srcs')].kind = "file")
          => (PlayFile \/ SeekTimer)]_vars

\* File mode entered with a decoded buffer after a capture: the capture is
\* stopped and no file node exists or plays.
C22_Witness ==
  /\ inputMode = "file" /\ fileBuffer # Null /\ ~isPlaying /\ fileSourceNode = Null
  /\ ~isRealtimeActive /\ pendingRead = 0 /\ pendingDecode = 0 /\ pendingStart = 0
  /\ Len(srcs) = 1 /\ srcs[1].kind = "mic" /\ ~srcs[1].live

\* C23 (as claimed): in every reachable state in which the transport is
\* Playing (isPlaying with a started playback node) the mode is file.
C23_PlayingOnlyInFileMode ==
  (isPlaying /\ fileSourceNode # Null /\ srcs[fileSourceNode].live)
    => inputMode = "file"

\* C24: for a coordinate x in 0..width, hzToCanvasX(canvasXToHz(x, width),
\* width) is x to within one unit of the result's resolution (1/XScale pixel);
\* x = 0 gives 0 Hz and comes back as exactly 0.
C24_RoundTrip ==
  (mapX # NoX /\ mapOutX # NoX)
    => /\ mapOutX - mapX * XScale \in {-1, 0, 1}
       /\ mapX = 0 => (mapHz = 0 /\ mapOutX = 0)

\* The round trip of a coordinate inside the first segment (between 0 Hz and
\* 50 Hz) has been made.
C24_Witness ==
  /\ mapWidth = 112 /\ mapX = 5 /\ mapOutX # NoX
  /\ mapHz > FrequencyValues[1] * HzScale /\ mapHz < FrequencyValues[2] * HzScale

\* C25: hzToCanvasX(hz, width) is non-decreasing in hz (no larger frequency
\* gets a smaller coordinate), is 0 at or below the first breakpoint (0 Hz) and
\* width at or above the last (10000 Hz), and puts breakpoint i (from 0) at
\* (i / 14) * width.
C25_MonotoneAndClamped ==
  (mapX = NoX /\ mapOutX # NoX)
    => /\ \A h \in MapFrequencies :
            h >= mapHz => hzToCanvasX(h, mapWidth) >= mapOutX
       /\ mapHz <= FrequencyValues[1] * HzScale => mapOutX = 0
       /\ mapHz >= FrequencyValues[Len(FrequencyValues)] * HzScale
            => mapOutX = mapWidth * XScale
       /\ \A i \in 1..Len(FrequencyValues) :
            mapHz = FrequencyValues[i] * HzScale
              => (Len(FrequencyValues) - 1) * mapOutX = (i - 1) * mapWidth * XScale

\* hzToCanvasX has placed a frequency above the last breakpoint at the right
\* edge of the plot.
C25_Witness ==
  /\ mapX = NoX /\ mapWidth = 112 /\ mapOutX = mapWidth * XScale
  /\ mapHz > FrequencyValues[Len(FrequencyValues)] * HzScale

\* C26 (as claimed): when one disconnect or stop call of a teardown throws,
\* the exception stays inside the function, the node it tears down ends up
\* stopped and disconnected and its bookkeeping is done (reference cleared, not
\* playing, mode updated); and connectAudioPipeline leaves the graph connected
\* as it does when nothing throws.
C26_TeardownTolerant ==
  [][(thrown = NoThrow /\ thrown' # NoThrow)
       => /\ ~escaped'
          /\ thrown'.call \in TeardownCalls
               => /\ ~srcs'[fileSourceNode].live /\ srcs'[fileSourceNode].out = {}
                  /\ fileSourceNode' = Null /\ ~isPlaying'
                  /\ thrown'.in = "stopCurrentInput"
                       => (inputMode' = "none" /\ currentSourceNode' = Null)
                  /\ thrown'.in = "switchToRealtimeMode" => inputMode' = "realtime"
          /\ thrown'.call \notin TeardownCalls
               => /\ conns' = clearBand(G).conns
                  /\ srcs' = clearBand(G).srcs]_vars

\* C27: once a successful startAudio or file load has started the render loop,
\* exactly one next-frame callback is pending after every frame and after
\* every other operation; before that none is; the loop never ends (no stop,
\* pause, mode switch or failed start takes lastFrameTime back to 0 or leaves
\* no frame requested), a frame always finds the context and the analyser, and
\* a later start or load never requests a second callback.
C27_RenderLoop ==
  /\ [](pendingFrames = (IF lastFrameTime = 0 THEN 0 ELSE 1))
  /\ []((isRealtimeActive \/ fileBuffer # Null) => lastFrameTime # 0)
  /\ [](lastFrameTime # 0 => (audioCtx /\ visualAnalyser))
  /\ [][lastFrameTime # 0 => lastFrameTime' # 0]_vars

\* A file load started the loop, a startAudio after it has failed and a frame
\* has been drawn: one frame is pending.
C27_Witness ==
  /\ lastFrameTime # 0 /\ pendingFrames = 1
  /\ fileBuffer # Null /\ peakBins # NoPeaks /\ status = "StartError"

\* C28: the audio context, the gain node, the two filters and the analysis tap
\* are each made at most once, an object exists exactly if it has been made,
\* no operation makes another instance of an object already made, and
\* initializeAudioNodes called when its nodes exist makes nothing and changes
\* nothing.
C28_CreatedOnce ==
  /\ [](\A o \in PersistentObjects : created[o] = (IF G[o] THEN 1 ELSE 0))
  /\ []((gainOut /\ highpass /\ lowpass /\ visualAnalyser)
          => (initializeAudioNodes(G) = G /\ nodesToCreate(G) = {}))
  /\ [][\A o \in PersistentObjects : created[o] = 1 => created'[o] = 1]_vars

\* Every persistent object has been made, the microphone has been captured
\* and, after a file load, a file plays in file mode.
C28_Witness ==
  /\ \A o \in PersistentObjects : created[o] = 1
  /\ mediaStream # Null /\ fileBuffer # Null
  /\ inputMode = "file" /\ isPlaying /\ fileSourceNode # Null

\* C29 (as claimed): when the microphone acquisition of a startAudio completes
\* while a file plays in file mode, the file node ends up stopped and disconnected, the
\* transport is not Playing, and no file node is connected along with the
\* microphone node.
C29_StartDoesNotOverlap ==
  [][(pendingStart' < pendingStart /\ status' # "StartError"
        /\ inputMode = "file" /\ isPlaying /\ fileSourceNode # Null)
       => /\ ~srcs'[fileSourceNode].live /\ srcs'[fileSourceNode].out = {}
          /\ ~isPlaying'
          /\ ~\E m, f \in 1..Len(srcs') :
                /\ srcs'[m].kind = "mic" /\ srcs'[m].out # {}
                /\ srcs'[f].kind = "file" /\ srcs'[f].out # {}]_vars

\* C30 (as claimed): once stopFile has been issued (the status still reads
\* "File stopped") or the input has been switched to realtime mode, and nothing
\* has been played since, the deferred restart of an earlier seek creates no
\* file node and does not set the transport Playing.
C30_StopIsFinal ==
  [][(pendingSeek' < pendingSeek /\ ~isPlaying
        /\ (status = "FileStopped" \/ inputMode = "realtime"))
       => (Len(srcs') = Len(srcs) /\ ~isPlaying' /\ fileSourceNode' = Null)]_vars

\* C31 (as claimed): the ended event delivered for a file node other than the
\* one the transport holds leaves the held node as it is (started, connected,
\* still held) and leaves the transport state unchanged.
C31_EndedBoundToOwnNode ==
  [][\A n \in 1..Len(srcs) :
       (~srcs[n].notified /\ srcs'[n].notified
          /\ fileSourceNode # Null /\ fileSourceNode # n)
         => /\ srcs'[fileSourceNode] = srcs[fileSourceNode]
            /\ fileSourceNode' = fileSourceNode
            /\ isPlaying' = isPlaying]_vars

\* C32 (as claimed): whenever the source mode is not realtime, the tracks of
\* every microphone stream obtained by startAudio have been stopped.
C32_NoStreamLeftRunning ==
  inputMode # "realtime"
    => \A n \in 1..Len(srcs) : srcs[n].kind = "mic" => ~srcs[n].live

====
